---- MODULE Spec2Model ----
(***************************************************************************)
(* Model of the allocation engine of analise-investimentos:                *)
(*   engine/portfolio.py   (weights), engine/grey_zones.py (bands, zones), *)
(*   engine/rebalancer.py  (two-layer order generation),                   *)
(* driven in the order main.py and the engine tests drive it:              *)
(*   build assets -> enrich_weights -> classify_all -> compute_rebalancing *)
(*                                                                         *)
(* Money, prices and quantities are whole numbers of the smallest unit.    *)
(* Every quotient the code forms in floating point (weights, class         *)
(* budgets, deltas, bounds) is kept as an exact fraction <<num, den>>      *)
(* with den > 0, so floor() and the comparisons are computed exactly.      *)
(* Asset.avg_price is left out: no engine function reads it.               *)
(***************************************************************************)
EXTENDS Integers, Sequences, FiniteSets, TLC

\* ------------------------------------------------------------------ bounds
MaxQty == 2
MaxPrice == 2
MaxCash == 3

\* config.py: DEFAULT_MAX_ORDERS
DEFAULT_MAX_ORDERS == 5

\* tickers of the positions, in file order (validate_portfolio: unique)
TickerSeq == <<"A", "B", "C">>
\* asset class of each position (members of models.AssetClass)
ClassOf == [A |-> "ACAO", B |-> "FII", C |-> "ACAO"]
\* quantities held and unit prices (0 = unpriced): the ends of the range and 1
Quantities == {0, 1, MaxQty}
Prices == {0, 1, MaxPrice}
\* target weights in percent
TargetWeights == {0, 30, 50}
\* (relative_pct, absolute_pp) in hundredths: 20 -> 0.20, 150 -> 1.5 pp
Tolerances == {<<20, 150>>, <<10, 100>>}

\* --------------------------------------------------- exact fractions
RNum(r) == r[1]
RDen(r) == r[2]
RInt(k) == <<k, 1>>
RLt(a, b) == a[1] * b[2] < b[1] * a[2]
RLe(a, b) == a[1] * b[2] <= b[1] * a[2]
RGt(a, b) == RLt(b, a)
RGe(a, b) == RLe(b, a)
RMin(a, b) == IF RLe(a, b) THEN a ELSE b
RMax(a, b) == IF RGe(a, b) THEN a ELSE b
\* a - k for a whole number k
RSubInt(a, k) == <<a[1] - k * a[2], a[2]>>
\* math.floor(a / p) for a whole number p > 0
RFloorDiv(a, p) == a[1] \div (a[2] * p)

\* ------------------------------------------------------------------ state
VARIABLES
    assets,          \* list[Asset]
    zones,           \* dict ticker -> (ZoneStatus, Band)
    pc,              \* position in the pipeline
    cash_injection,  \* argument of compute_rebalancing
    max_orders,      \* the caller's cap on distinct buy tickers
    v_projected,     \* local of compute_rebalancing
    class_cash,      \* local: list of [cls, budget] in dict insertion order
    orders,          \* local / returned list[Order]
    remaining_cash,  \* local
    residual_cash,   \* returned residual
    call,            \* a library function called on its own: name and arguments
    ret              \* what that call returned or raised

vars == <<assets, zones, pc, cash_injection, max_orders, v_projected,
          class_cash, orders, remaining_cash, residual_cash, call, ret>>

\* the variables of a direct library call
lib == <<call, ret>>

\* ------------------------------------------------------- engine/models.py
\* Asset.current_value
current_value(a) == a.quantity * a.current_price

\* Order.amount
amount(o) == o.quantity * o.price

\* the lower bound left unclamped
Band_Unclamped(target_weight, relC, absC) ==
    [target_weight |-> target_weight,
     lower_bound |-> <<100 * target_weight - target_weight * relC - absC, 100>>,
     upper_bound |-> <<100 * target_weight + target_weight * relC + absC, 100>>]

\* Band.__post_init__ : bounds in percent, as fractions over 100
Band(target_weight, relC, absC) ==
    [target_weight |-> target_weight,
     lower_bound |-> RMax(<<100 * target_weight - target_weight * relC - absC, 100>>, RInt(0)),
     upper_bound |-> <<100 * target_weight + target_weight * relC + absC, 100>>]

NoBand == [target_weight |-> 0, lower_bound |-> RInt(0), upper_bound |-> RInt(0)]

\* ---------------------------------------------------- engine/portfolio.py
RECURSIVE SumValues(_, _)
SumValues(s, i) == IF i > Len(s) THEN 0 ELSE current_value(s[i]) + SumValues(s, i + 1)

compute_portfolio_value(s) == SumValues(s, 1)

\* weights as fractions of 1 instead of percentages
compute_weights_Fraction(s) ==
    LET total == compute_portfolio_value(s)
    IN  [i \in 1..Len(s) |->
            IF total <= 0 THEN RInt(0) ELSE <<current_value(s[i]), total>>]

\* weight in percent of asset i: value / total * 100, or 0 when total <= 0
compute_weights(s) ==
    LET total == compute_portfolio_value(s)
    IN  [i \in 1..Len(s) |->
            IF total <= 0 THEN RInt(0) ELSE <<100 * current_value(s[i]), total>>]

\* compute_gaps: target_weight - weights[ticker] per asset
compute_gaps(s) ==
    LET w == compute_weights(s)
    IN  [i \in 1..Len(s) |-> <<s[i].target_weight * RDen(w[i]) - RNum(w[i]), RDen(w[i])>>]

\* current_weight written as a fraction of 1 instead of a percentage
enrich_weights_Fraction(s) ==
    [i \in 1..Len(s) |-> [s[i] EXCEPT !.current_weight = compute_weights_Fraction(s)[i]]]

\* enrich_weights: writes current_weight on every asset
enrich_weights(s) ==
    [i \in 1..Len(s) |-> [s[i] EXCEPT !.current_weight = compute_weights(s)[i]]]

\* value of the assets of class cls
RECURSIVE ClassValue(_, _, _)
ClassValue(s, cls, i) ==
    IF i > Len(s) THEN 0
    ELSE (IF s[i].asset_class = cls THEN current_value(s[i]) ELSE 0) + ClassValue(s, cls, i + 1)

\* classes in order of first appearance (dict insertion order)
RECURSIVE ClassesInOrder(_, _, _)
ClassesInOrder(s, i, acc) ==
    IF i > Len(s) THEN acc
    ELSE ClassesInOrder(s, i + 1,
            IF \E j \in 1..Len(acc) : acc[j] = s[i].asset_class
            THEN acc ELSE Append(acc, s[i].asset_class))

\* class weight in percent; the mapping is empty when total <= 0
HasClassWeights_Always(s) == TRUE
HasClassWeights(s) == compute_portfolio_value(s) > 0
compute_class_weights(s, cls) == <<100 * ClassValue(s, cls, 1), compute_portfolio_value(s)>>

\* ---------------------------------------------------- engine/grey_zones.py
compute_band(target_weight, relC, absC) == Band(target_weight, relC, absC)

\* the ends of the band taken as outside it
classify_zone_Open(current_weight, band) ==
    IF RLe(current_weight, band.lower_bound) THEN "BUY"
    ELSE IF RGe(current_weight, band.upper_bound) THEN "SELL"
    ELSE "HOLD"

\* classify_zone
classify_zone(current_weight, band) ==
    IF RLt(current_weight, band.lower_bound) THEN "BUY"
    ELSE IF RGt(current_weight, band.upper_bound) THEN "SELL"
    ELSE "HOLD"

classify_all(s, relC, absC) ==
    [t \in {s[i].ticker : i \in 1..Len(s)} |->
        LET a == s[CHOOSE i \in 1..Len(s) : s[i].ticker = t
                                /\ \A j \in (i + 1)..Len(s) : s[j].ticker # t]
            band == compute_band(a.target_weight, relC, absC)
        IN  [status |-> classify_zone(a.current_weight, band), band |-> band]]

\* zones.get(ticker, (ZoneStatus.HOLD, None))
ZoneGet(z, t) == IF t \in DOMAIN z THEN z[t] ELSE [status |-> "HOLD", band |-> NoBand]
HasBand(z, t) == t \in DOMAIN z

\* --------------------------------------------------- engine/rebalancer.py
\* list.sort(key=lambda x: -x.key): stable, descending by key
InsertDesc(sorted, x) ==
    LET k == Cardinality({j \in 1..Len(sorted) : RGe(sorted[j].key, x.key)})
    IN  SubSeq(sorted, 1, k) \o <<x>> \o SubSeq(sorted, k + 1, Len(sorted))

RECURSIVE SortDescFrom(_, _, _)
SortDescFrom(s, i, acc) ==
    IF i > Len(s) THEN acc ELSE SortDescFrom(s, i + 1, InsertDesc(acc, s[i]))

SortDesc(s) == SortDescFrom(s, 1, <<>>)

\* sum(class_targets.values()): every target weight is counted in its class
RECURSIVE SumTargets(_, _)
SumTargets(s, i) == IF i > Len(s) THEN 0 ELSE s[i].target_weight + SumTargets(s, i + 1)

\* assets_by_class[cls]
RECURSIVE FilterClass(_, _, _)
FilterClass(s, cls, i) ==
    IF i > Len(s) THEN <<>>
    ELSE (IF s[i].asset_class = cls THEN <<s[i]>> ELSE <<>>) \o FilterClass(s, cls, i + 1)

\* compute_class_targets: sum of target weights of the class
RECURSIVE compute_class_targets(_, _, _)
compute_class_targets(s, cls, i) ==
    IF i > Len(s) THEN 0
    ELSE (IF s[i].asset_class = cls THEN s[i].target_weight ELSE 0)
         + compute_class_targets(s, cls, i + 1)

\* gap = target - class_weights.get(cls, 0.0), as GapNum / GapDen
GapDen(s) == IF HasClassWeights(s) THEN compute_portfolio_value(s) ELSE 1
GapNum(s, cls) ==
    IF HasClassWeights(s)
    THEN compute_class_targets(s, cls, 1) * RDen(compute_class_weights(s, cls))
         - RNum(compute_class_weights(s, cls))
    ELSE compute_class_targets(s, cls, 1)

\* class_deficits: the classes with gap > 0, in insertion order
RECURSIVE ClassDeficits(_, _, _)
ClassDeficits(s, classes, i) ==
    IF i > Len(classes) THEN <<>>
    ELSE (IF GapNum(s, classes[i]) > 0 THEN <<classes[i]>> ELSE <<>>)
         \o ClassDeficits(s, classes, i + 1)

RECURSIVE SumGapNum(_, _, _)
SumGapNum(s, classes, i) ==
    IF i > Len(classes) THEN 0 ELSE GapNum(s, classes[i]) + SumGapNum(s, classes, i + 1)

\* the deficits ignored: every class funded in proportion to its target
ClassCash_ByTargetOnly(s, cash) ==
    LET classes      == ClassesInOrder(s, 1, <<>>)
        total_target == SumTargets(s, 1)
    IN  IF total_target > 0
        THEN [j \in 1..Len(classes) |->
                [cls |-> classes[j],
                 key |-> <<cash * compute_class_targets(s, classes[j], 1), total_target>>]]
        ELSE <<>>

\* Layer 1: class_cash as a list of [cls, key = budget] in insertion order
ClassCash(s, cash) ==
    LET classes       == ClassesInOrder(s, 1, <<>>)
        deficits      == ClassDeficits(s, classes, 1)
        total_deficit == SumGapNum(s, deficits, 1)     \* over GapDen(s)
        total_target  == SumTargets(s, 1)
    IN  IF total_deficit > GapDen(s)                    \* total_deficit > 1.0
        THEN [j \in 1..Len(deficits) |->
                [cls |-> deficits[j], key |-> <<cash * GapNum(s, deficits[j]), total_deficit>>]]
        ELSE IF total_target > 0
        THEN [j \in 1..Len(classes) |->
                [cls |-> classes[j],
                 key |-> <<cash * compute_class_targets(s, classes[j], 1), total_target>>]]
        ELSE <<>>

\* delta = target_weight / 100 * v_projected - current_value
Delta(a, vp) == <<a.target_weight * vp - 100 * current_value(a), 100>>

\* the filter of _compute_class_buys
IsBuyCandidate(a, vp) == ~(RLe(Delta(a, vp), RInt(0)) \/ a.current_price <= 0)

\* priority = delta * (2 if status == BUY else 1)
Priority(a, vp, z) ==
    LET d == Delta(a, vp)
    IN  IF ZoneGet(z, a.ticker).status = "BUY" THEN <<2 * d[1], d[2]>> ELSE d

\* deltas: the candidates of one class with their priority, before sorting
RECURSIVE Deltas(_, _, _, _)
Deltas(cls_assets, vp, z, i) ==
    IF i > Len(cls_assets) THEN <<>>
    ELSE (IF IsBuyCandidate(cls_assets[i], vp)
          THEN <<[a |-> cls_assets[i], key |-> Priority(cls_assets[i], vp, z)]>>
          ELSE <<>>)
         \o Deltas(cls_assets, vp, z, i + 1)

\* the quantity taken from delta alone, the class budget ignored
ClassBuyQty_NoBudget(a, vp, cash_left) == RFloorDiv(Delta(a, vp), a.current_price)

\* qty = floor(min(delta, cash_left) / price)
ClassBuyQty(a, vp, cash_left) == RFloorDiv(RMin(Delta(a, vp), cash_left), a.current_price)

BuyOrder(a, qty) ==
    [ticker |-> a.ticker, action |-> "BUY", quantity |-> qty, price |-> a.current_price]

\* the allocation loop keeping the orders of quantity 0
RECURSIVE ClassBuysLoop_KeepsEmpty(_, _, _, _)
ClassBuysLoop_KeepsEmpty(deltas, vp, i, cash_left) ==
    IF i > Len(deltas) \/ RLe(cash_left, RInt(0)) THEN <<>>
    ELSE LET a   == deltas[i].a
             qty == ClassBuyQty(a, vp, cash_left)
         IN  <<BuyOrder(a, qty)>>
             \o ClassBuysLoop_KeepsEmpty(deltas, vp, i + 1,
                                         RSubInt(cash_left, qty * a.current_price))

\* the allocation loop of _compute_class_buys
RECURSIVE ClassBuysLoop(_, _, _, _)
ClassBuysLoop(deltas, vp, i, cash_left) ==
    IF i > Len(deltas) \/ RLe(cash_left, RInt(0)) THEN <<>>
    ELSE LET a   == deltas[i].a
             qty == ClassBuyQty(a, vp, cash_left)
         IN  IF qty > 0
             THEN <<BuyOrder(a, qty)>>
                  \o ClassBuysLoop(deltas, vp, i + 1, RSubInt(cash_left, qty * a.current_price))
             ELSE ClassBuysLoop(deltas, vp, i + 1, cash_left)

\* the candidates served in list order, the sort left out
compute_class_buys_Unsorted(cls_assets, budget, vp, z) ==
    ClassBuysLoop(Deltas(cls_assets, vp, z, 1), vp, 1, budget)

compute_class_buys(cls_assets, budget, vp, z) ==
    ClassBuysLoop(SortDesc(Deltas(cls_assets, vp, z, 1)), vp, 1, budget)

RECURSIVE SumAmounts(_, _)
SumAmounts(os, i) == IF i > Len(os) THEN 0 ELSE amount(os[i]) + SumAmounts(os, i + 1)

\* Pass 1: every class spends its budget, largest budget first
RECURSIVE Pass1(_, _, _, _, _)
Pass1(s, sorted_cash, vp, z, i) ==
    IF i > Len(sorted_cash) THEN <<>>
    ELSE LET budget     == sorted_cash[i].key
             cls_assets == FilterClass(s, sorted_cash[i].cls, 1)
         IN  (IF RLe(budget, RInt(0)) \/ Len(cls_assets) = 0
              THEN <<>>
              ELSE compute_class_buys(cls_assets, budget, vp, z))
             \o Pass1(s, sorted_cash, vp, z, i + 1)

\* affordable = [a for a in assets if 0 < a.current_price <= remaining_cash]
RECURSIVE Affordable(_, _, _)
Affordable(s, remaining, i) ==
    IF i > Len(s) THEN <<>>
    ELSE (IF 0 < s[i].current_price /\ s[i].current_price <= remaining
          THEN <<[a |-> s[i], key |-> RInt(s[i].target_weight)]>> ELSE <<>>)
         \o Affordable(s, remaining, i + 1)

\* qty of the spillover pass for asset a with remaining cash
SpillQty(a, remaining) ==
    LET target_budget == IF a.target_weight > 0
                         THEN <<remaining * a.target_weight, 100>> ELSE RInt(0)
        spend == RMin(RMax(target_budget, RInt(a.current_price)), RInt(remaining))
    IN  RFloorDiv(spend, a.current_price)

\* the extra units never reach the existing order
MergeQty_Lost(os, t, qty) == os

\* existing = next(o for o in orders if o.ticker == t); existing.quantity += qty
MergeQty(os, t, qty) ==
    LET k == CHOOSE j \in 1..Len(os) :
                os[j].ticker = t /\ \A m \in 1..(j - 1) : os[m].ticker # t
    IN  [os EXCEPT ![k].quantity = @ + qty]

\* the loop of Pass 2; st = [orders, remaining, ordered] threaded through
RECURSIVE SpillLoop(_, _, _)
SpillLoop(aff, i, st) ==
    IF i > Len(aff) THEN st
    ELSE LET a   == aff[i].a
             qty == SpillQty(a, st.remaining)
         IN  IF st.remaining < a.current_price \/ qty <= 0
             THEN SpillLoop(aff, i + 1, st)
             ELSE SpillLoop(aff, i + 1,
                    [orders    |-> IF a.ticker \in st.ordered
                                   THEN MergeQty(st.orders, a.ticker, qty)
                                   ELSE Append(st.orders, BuyOrder(a, qty)),
                     remaining |-> st.remaining - qty * a.current_price,
                     ordered   |-> st.ordered \cup {a.ticker}])

\* Pass 2 as a whole
Spillover(s, os, remaining) ==
    IF remaining > 1
    THEN SpillLoop(SortDesc(Affordable(s, remaining, 1)), 1,
                   [orders |-> os, remaining |-> remaining,
                    ordered |-> {os[j].ticker : j \in 1..Len(os)}])
    ELSE [orders |-> os, remaining |-> remaining,
          ordered |-> {os[j].ticker : j \in 1..Len(os)}]

\* the excess measured from the lower bound of the band
Excess_FromLower(a, vp, band) ==
    <<100 * RDen(band.lower_bound) * current_value(a) - RNum(band.lower_bound) * vp,
      100 * RDen(band.lower_bound)>>

\* excess = current_value - band.upper_bound / 100 * v_projected
Excess(a, vp, band) ==
    <<100 * RDen(band.upper_bound) * current_value(a) - RNum(band.upper_bound) * vp,
      100 * RDen(band.upper_bound)>>

\* does _compute_sells reach the quantity computation for asset a
SellReached(a, vp, z) ==
    /\ ~(ZoneGet(z, a.ticker).status # "SELL" \/ ~HasBand(z, a.ticker))
    /\ ~(a.current_price <= 0)
    /\ ~RLe(Excess(a, vp, ZoneGet(z, a.ticker).band), RInt(0))

\* the quantity rounded up instead of down
SellQty_RoundsUp(a, vp, z) ==
    RFloorDiv(Excess(a, vp, ZoneGet(z, a.ticker).band), a.current_price) + 1

SellQty(a, vp, z) == RFloorDiv(Excess(a, vp, ZoneGet(z, a.ticker).band), a.current_price)

SellOrder(a, qty) ==
    [ticker |-> a.ticker, action |-> "SELL", quantity |-> qty, price |-> a.current_price]

\* an order for every priced SELL-zone asset, whatever the sign of its excess
RECURSIVE compute_sells_Unguarded(_, _, _, _)
compute_sells_Unguarded(s, vp, z, i) ==
    IF i > Len(s) THEN <<>>
    ELSE (IF ZoneGet(z, s[i].ticker).status = "SELL" /\ s[i].current_price > 0
          THEN <<SellOrder(s[i], SellQty(s[i], vp, z))>> ELSE <<>>)
         \o compute_sells_Unguarded(s, vp, z, i + 1)

\* _compute_sells
RECURSIVE compute_sells(_, _, _, _)
compute_sells(s, vp, z, i) ==
    IF i > Len(s) THEN <<>>
    ELSE (IF SellReached(s[i], vp, z) /\ SellQty(s[i], vp, z) > 0
          THEN <<SellOrder(s[i], SellQty(s[i], vp, z))>> ELSE <<>>)
         \o compute_sells(s, vp, z, i + 1)

\* ------------------------------------------------------------ the pipeline
\* the positions the portfolio file can hold, in file order: ticker and class
\* are fixed per position, quantity, price and target weight vary
Position(i, f) ==
    [ticker |-> TickerSeq[i], asset_class |-> ClassOf[TickerSeq[i]],
     quantity |-> f.quantity, current_price |-> f.current_price,
     target_weight |-> f.target_weight, current_weight |-> RInt(0)]

\* validate_portfolio: unique tickers, values >= 0, targets in 0..100 summing to <= 100
ValidAssets(s) ==
    /\ \A i, j \in 1..Len(s) : s[i].ticker = s[j].ticker => i = j
    /\ \A i \in 1..Len(s) : s[i].quantity >= 0 /\ s[i].current_price >= 0
                              /\ s[i].target_weight \in 0..100
    /\ SumTargets(s, 1) <= 100

Init ==
    /\ \E n \in 0..Len(TickerSeq) :
         \E f \in [1..n -> [quantity : Quantities, current_price : Prices,
                             target_weight : TargetWeights]] :
            /\ assets = [i \in 1..n |-> Position(i, f[i])]
            /\ ValidAssets(assets)
    /\ zones = <<>>
    /\ pc = "built"
    /\ cash_injection = 0
    /\ max_orders = DEFAULT_MAX_ORDERS
    /\ v_projected = 0
    /\ class_cash = <<>>
    /\ orders = <<>>
    /\ remaining_cash = 0
    /\ residual_cash = 0
    /\ call = [fn |-> "none"]
    /\ ret = [raised |-> "none"]

\* enrich_weights: writes current_weight on every asset
EnrichWeights ==
    /\ pc = "built"
    /\ assets' = enrich_weights(assets)
    /\ pc' = "enriched"
    /\ UNCHANGED <<zones, cash_injection, max_orders, v_projected, class_cash,
                   orders, remaining_cash, residual_cash>>
    /\ UNCHANGED lib

\* zones = classify_all(assets, relative_band, absolute_band)
ClassifyAll ==
    /\ pc = "enriched"
    /\ \E tol \in Tolerances : zones' = classify_all(assets, tol[1], tol[2])
    /\ pc' = "classified"
    /\ UNCHANGED <<assets, cash_injection, max_orders, v_projected, class_cash,
                   orders, remaining_cash, residual_cash>>
    /\ UNCHANGED lib

\* line 35: if v_projected <= 0: return [], cash_injection
EarlyReturn_Strict(vp) == vp < 0
EarlyReturn(vp) == vp <= 0

\* line 117: max(remaining_cash, 0)
Residual(remaining) == IF remaining > 0 THEN remaining ELSE 0

\* compute_rebalancing, lines 32-63: projected value, early return, Layer 1.
\* The caller picks the cash to invest and its cap on buy tickers; the
\* signature of compute_rebalancing has no parameter for the cap.
RebalStart ==
    /\ pc = "classified"
    /\ \E cash \in 0..MaxCash, cap \in {1, DEFAULT_MAX_ORDERS} :
        /\ cash_injection' = cash
        /\ max_orders' = cap
        /\ v_projected' = compute_portfolio_value(assets) + cash
        /\ IF EarlyReturn(v_projected')
           THEN /\ pc' = "returned"
                /\ residual_cash' = cash
                /\ UNCHANGED <<class_cash, remaining_cash>>
           ELSE /\ pc' = "pass1"
                /\ class_cash' = ClassCash(assets, cash)
                /\ remaining_cash' = cash
                /\ UNCHANGED residual_cash
    /\ orders' = <<>>
    /\ UNCHANGED <<assets, zones>>
    /\ UNCHANGED lib

\* lines 69-86: Pass 1
RebalPass1 ==
    /\ pc = "pass1"
    /\ orders' = Pass1(assets, SortDesc(class_cash), v_projected, zones, 1)
    /\ remaining_cash' = remaining_cash - SumAmounts(orders', 1)
    /\ pc' = "spillover"
    /\ UNCHANGED <<assets, zones, cash_injection, max_orders, v_projected,
                   class_cash, residual_cash>>
    /\ UNCHANGED lib

\* Pass 2 sorting the caller's list itself instead of the filtered copy
RebalSpillover_SortsInPlace ==
    /\ pc = "spillover"
    /\ LET st == Spillover(assets, orders, remaining_cash)
           byTarget == SortDesc([i \in 1..Len(assets) |->
                                   [a |-> assets[i], key |-> RInt(assets[i].target_weight)]])
       IN  /\ orders' = st.orders
           /\ remaining_cash' = st.remaining
           /\ assets' = [i \in 1..Len(assets) |-> byTarget[i].a]
    /\ pc' = "sells"
    /\ UNCHANGED <<zones, cash_injection, max_orders, v_projected,
                   class_cash, residual_cash>>
    /\ UNCHANGED lib

\* lines 88-109: Pass 2
RebalSpillover ==
    /\ pc = "spillover"
    /\ LET st == Spillover(assets, orders, remaining_cash)
       IN  /\ orders' = st.orders
           /\ remaining_cash' = st.remaining
    /\ pc' = "sells"
    /\ UNCHANGED <<assets, zones, cash_injection, max_orders, v_projected,
                   class_cash, residual_cash>>
    /\ UNCHANGED lib

\* the sell loop subtracting the proceeds as the buy loop does, result returned as is
RebalSells_Subtracting ==
    /\ pc = "sells"
    /\ LET sell_orders == compute_sells(assets, v_projected, zones, 1)
       IN  /\ orders' = orders \o sell_orders
           /\ remaining_cash' = remaining_cash - SumAmounts(sell_orders, 1)
    /\ residual_cash' = remaining_cash'
    /\ pc' = "returned"
    /\ UNCHANGED <<assets, zones, cash_injection, max_orders, v_projected, class_cash>>
    /\ UNCHANGED lib

\* lines 111-117: sell phase and return
RebalSells ==
    /\ pc = "sells"
    /\ LET sell_orders == compute_sells(assets, v_projected, zones, 1)
       IN  /\ orders' = orders \o sell_orders
           /\ remaining_cash' = remaining_cash + SumAmounts(sell_orders, 1)
    /\ residual_cash' = Residual(remaining_cash')
    /\ pc' = "returned"
    /\ UNCHANGED <<assets, zones, cash_injection, max_orders, v_projected, class_cash>>
    /\ UNCHANGED lib

Next ==
    \/ EnrichWeights
    \/ ClassifyAll
    \/ RebalStart
    \/ RebalPass1
    \/ RebalSpillover
    \/ RebalSells

Spec == Init /\ [][Next]_vars
\* ------------------------------------------------- direct library calls
\* Each engine function called on its own, as the unit tests call it: the
\* arguments are drawn from small sets, the result is kept in ret.

\* target weights and (relative_pct, absolute_pp) pairs in hundredths, over
\* the ranges the sidebar offers (relative 0..0.50, absolute 0..5.0 pp)
BandTargets == {0, 1, 10, 50, 100}
BandTolerances == {<<0, 0>>, <<10, 100>>, <<20, 150>>, <<50, 500>>}

\* the pipeline variables, untouched by a direct call
engine == <<assets, zones, pc, cash_injection, max_orders, v_projected,
            class_cash, orders, remaining_cash, residual_cash>>

Idle == pc = "lib" /\ call.fn = "none"

LibInit ==
    /\ assets = <<>>
    /\ zones = <<>>
    /\ pc = "lib"
    /\ cash_injection = 0
    /\ max_orders = DEFAULT_MAX_ORDERS
    /\ v_projected = 0
    /\ class_cash = <<>>
    /\ orders = <<>>
    /\ remaining_cash = 0
    /\ residual_cash = 0
    /\ call = [fn |-> "none"]
    /\ ret = [raised |-> "none"]

\* compute_band(target_weight, relative_pct, absolute_pp)
CallComputeBand ==
    /\ Idle
    /\ \E t \in BandTargets, tol \in BandTolerances :
        /\ call' = [fn |-> "compute_band", target_weight |-> t,
                    relC |-> tol[1], absC |-> tol[2]]
        /\ ret' = compute_band(t, tol[1], tol[2])
    /\ UNCHANGED engine

\* a fraction in whole hundredths (all bounds are fractions over 100 or 0)
Hundredths(r) == (100 * r[1]) \div r[2]

\* current weights in hundredths of a percent around the ends of a band
ZoneWeights(band) ==
    {w \in {Hundredths(band.lower_bound) + d : d \in -1..1}
           \cup {Hundredths(band.upper_bound) + d : d \in -1..1}
           \cup {0, 100 * band.target_weight} : w >= 0}

\* classify_zone(current_weight, band), the band made by compute_band
CallClassifyZone ==
    /\ Idle
    /\ \E t \in BandTargets, tol \in BandTolerances :
        LET band == compute_band(t, tol[1], tol[2])
        IN  \E w \in ZoneWeights(band) :
              /\ call' = [fn |-> "classify_zone", current_weight |-> <<w, 100>>,
                          band |-> band]
              /\ ret' = classify_zone(<<w, 100>>, band)
    /\ UNCHANGED engine

\* the asset lists a caller can build: any length up to the file's positions
AssetList(n, f) == [i \in 1..n |-> Position(i, f[i])]
AssetFields(n) == [1..n -> [quantity : Quantities, current_price : Prices,
                            target_weight : {0}]]

\* what a call gives back: the value, or ZeroDivisionError when a float
\* division in it had a zero divisor
Returns(value, quotients) ==
    IF \E q \in quotients : RDen(q) = 0
    THEN [raised |-> "ZeroDivisionError"]
    ELSE [raised |-> "none", value |-> value]

CallComputeWeights ==
    /\ Idle
    /\ \E n \in 0..Len(TickerSeq) : \E f \in AssetFields(n) :
         LET s == AssetList(n, f)
             w == compute_weights(s)
         IN  /\ call' = [fn |-> "compute_weights", assets |-> s]
             /\ ret' = Returns(w, {w[i] : i \in 1..Len(s)})
    /\ UNCHANGED engine

\* the fields of assets that carry a target weight
TargetedFields(n) == [1..n -> [quantity : Quantities, current_price : Prices,
                               target_weight : TargetWeights]]

\* compute_gaps on the lists a caller can build
CallComputeGaps ==
    /\ Idle
    /\ \E n \in 0..Len(TickerSeq) : \E f \in TargetedFields(n) :
         LET s == AssetList(n, f)
         IN  /\ call' = [fn |-> "compute_gaps", assets |-> s]
             /\ ret' = [raised |-> "none", value |-> compute_gaps(s)]
    /\ UNCHANGED engine

\* classify_all on lists whose current_weight enrich_weights has written
CallClassifyAll ==
    /\ Idle
    /\ \E n \in 0..Len(TickerSeq) : \E f \in TargetedFields(n) : \E tol \in BandTolerances :
         LET s == enrich_weights(AssetList(n, f))
         IN  /\ call' = [fn |-> "classify_all", assets |-> s,
                         relC |-> tol[1], absC |-> tol[2]]
             /\ ret' = [raised |-> "none", value |-> classify_all(s, tol[1], tol[2])]
    /\ UNCHANGED engine

\* the mapping compute_class_weights returns: one entry per class present
ClassWeightsMap(s) ==
    IF HasClassWeights(s)
    THEN [cls \in {s[i].asset_class : i \in 1..Len(s)} |-> compute_class_weights(s, cls)]
    ELSE <<>>

CallComputeClassWeights ==
    /\ Idle
    /\ \E n \in 0..Len(TickerSeq) : \E f \in AssetFields(n) :
         LET s == AssetList(n, f)
             m == ClassWeightsMap(s)
         IN  /\ call' = [fn |-> "compute_class_weights", assets |-> s]
             /\ ret' = Returns(m, {m[c] : c \in DOMAIN m})
    /\ UNCHANGED engine

\* -------------------------------------------------- engine/markowitz.py
\* weight mappings over some of the tickers, in percent
WeightMaps == UNION {[ts -> {0, 30, 70}] : ts \in SUBSET {"A", "B"}}
\* blend factors, two of them outside [0, 1]
BlendFactors == {<<-1, 2>>, <<0, 1>>, <<1, 2>>, <<1, 1>>, <<3, 2>>}

\* weights.get(ticker, 0.0)
WeightGet(m, t) == IF t \in DOMAIN m THEN m[t] ELSE 0

\* the optimal share added on top of the whole current value
Blend_Additive(curr, opt, b) == <<curr * RDen(b) + opt * RNum(b), RDen(b)>>

\* curr * (1 - blend_factor) + opt * blend_factor
Blend(curr, opt, b) == <<curr * (RDen(b) - RNum(b)) + opt * RNum(b), RDen(b)>>

\* the blend factor used as given
suggest_targets_Unclamped(current_weights, optimal_weights, blend_factor) ==
    [t \in DOMAIN current_weights \cup DOMAIN optimal_weights |->
        Blend(WeightGet(current_weights, t), WeightGet(optimal_weights, t), blend_factor)]

suggest_targets(current_weights, optimal_weights, blend_factor) ==
    LET b == RMax(RInt(0), RMin(RInt(1), blend_factor))
    IN  [t \in DOMAIN current_weights \cup DOMAIN optimal_weights |->
            Blend(WeightGet(current_weights, t), WeightGet(optimal_weights, t), b)]

CallSuggestTargets ==
    /\ Idle
    /\ \E c \in WeightMaps, o \in WeightMaps, b \in BlendFactors :
         /\ call' = [fn |-> "suggest_targets", current_weights |-> c,
                      optimal_weights |-> o, blend_factor |-> b]
         /\ ret' = [raised |-> "none", value |-> suggest_targets(c, o, b)]
    /\ UNCHANGED engine

\* expected returns in units of 1e-11, so that the 1e-10 of the guard is 10
FRONTIER_EPS == 10
MaxPoints == 3
MuValues == {0, 9, 10, 20}
MuVectors == UNION {[1..n -> MuValues] : n \in 0..2}

\* what one call of minimize_variance does: it raises, or it returns a
\* point whose volatility is 0, not a number, or positive
SolverOutcomes == {"raises", "zero", "nan", "positive"}

RECURSIVE MinOf(_, _)
MinOf(mu, i) == IF i = Len(mu) THEN mu[i]
                ELSE IF mu[i] < MinOf(mu, i + 1) THEN mu[i] ELSE MinOf(mu, i + 1)
RECURSIVE MaxOf(_, _)
MaxOf(mu, i) == IF i = Len(mu) THEN mu[i]
                ELSE IF mu[i] > MaxOf(mu, i + 1) THEN mu[i] ELSE MaxOf(mu, i + 1)

\* np.linspace(min_ret, max_ret, n_points)
linspace(lo, hi, n) ==
    [i \in 1..n |-> IF n = 1 THEN RInt(lo)
                     ELSE <<lo * (n - 1) + (i - 1) * (hi - lo), n - 1>>]

\* only an exactly zero spread taken as degenerate
Degenerate_Exact(mu) == MaxOf(mu, 1) - MinOf(mu, 1) = 0

\* if max_ret - min_ret < 1e-10
Degenerate(mu) == MaxOf(mu, 1) - MinOf(mu, 1) < FRONTIER_EPS

\* the loop left at the first target whose solve raises
RECURSIVE FrontierLoop_AbortsOnRaise(_, _, _)
FrontierLoop_AbortsOnRaise(targets, outcome, i) ==
    IF i > Len(targets) \/ outcome[i] = "raises" THEN <<>>
    ELSE (IF outcome[i] = "positive"
          THEN <<[return |-> targets[i], volatility |-> "positive"]>> ELSE <<>>)
         \o FrontierLoop_AbortsOnRaise(targets, outcome, i + 1)

\* the loop over the targets: a point is kept when its volatility is > 0
RECURSIVE FrontierLoop(_, _, _)
FrontierLoop(targets, outcome, i) ==
    IF i > Len(targets) THEN <<>>
    ELSE (IF outcome[i] = "positive"
          THEN <<[return |-> targets[i], volatility |-> "positive"]>> ELSE <<>>)
         \o FrontierLoop(targets, outcome, i + 1)

\* generate_efficient_frontier: the frontier and the targets handed to
\* minimize_variance, in order; np.min of an empty vector raises ValueError
generate_efficient_frontier(mu, n_points, outcome) ==
    IF Len(mu) = 0 THEN [raised |-> "ValueError"]
    ELSE IF Degenerate(mu) THEN [raised |-> "none", value |-> <<>>, solved |-> <<>>]
    ELSE LET targets == linspace(MinOf(mu, 1), MaxOf(mu, 1), n_points)
         IN  [raised |-> "none", value |-> FrontierLoop(targets, outcome, 1),
              solved |-> targets]

CallGenerateEfficientFrontier ==
    /\ Idle
    /\ \E mu \in MuVectors, n \in 0..MaxPoints :
         \E outcome \in [1..n -> SolverOutcomes] :
            /\ call' = [fn |-> "generate_efficient_frontier", mu |-> mu,
                         n_points |-> n, outcome |-> outcome]
            /\ ret' = generate_efficient_frontier(mu, n, outcome)
    /\ UNCHANGED engine

\* a price frame: rows of cells, a cell being a number or NaN
MaxRows == 3
NaN == [kind |-> "nan", num |-> 0, den |-> 1]
Num(v) == [kind |-> "num", num |-> v, den |-> 1]
PriceCells == {NaN, Num(0), Num(1), Num(2)}
PriceFrames == UNION {[1..n -> [1..c -> PriceCells]] : n \in 0..MaxRows, c \in 0..2}

\* prices_df.shift(1): row i holds row i - 1, the first row is NaN
Shift(df) ==
    [i \in 1..Len(df) |-> [k \in DOMAIN df[i] |-> IF i = 1 THEN NaN ELSE df[i - 1][k]]]

\* np.log(cur / prev) of one cell: NaN from a NaN operand or 0 / 0,
\* inf from x / 0, -inf from 0 / x, else the log of the ratio cur / prev
LogRatio(cur, prev) ==
    IF cur.kind = "nan" \/ prev.kind = "nan" THEN NaN
    ELSE IF cur.num = 0 /\ prev.num = 0 THEN NaN
    ELSE IF prev.num = 0 THEN [kind |-> "inf", num |-> 1, den |-> 0]
    ELSE IF cur.num = 0 THEN [kind |-> "-inf", num |-> 0, den |-> 1]
    ELSE [kind |-> "log", num |-> cur.num, den |-> prev.num]

\* keeps every row
dropna_KeepsAll(df) == df

\* DataFrame.dropna(): the rows without a NaN cell, in order
dropna(df) == SelectSeq(df, LAMBDA row : \A k \in DOMAIN row : row[k].kind # "nan")

compute_log_returns(prices_df) ==
    LET shifted == Shift(prices_df)
    IN  dropna([i \in 1..Len(prices_df) |->
                 [k \in DOMAIN prices_df[i] |-> LogRatio(prices_df[i][k], shifted[i][k])]])

CallComputeLogReturns ==
    /\ Idle
    /\ \E df \in PriceFrames :
         /\ call' = [fn |-> "compute_log_returns", prices_df |-> df]
         /\ ret' = [raised |-> "none", value |-> compute_log_returns(df)]
    /\ UNCHANGED engine

\* ------------------------------------------- ingestion/portfolio_loader.py
REQUIRED_FIELDS == {"ticker", "asset_class", "quantity", "avg_price", "target_weight_pct"}

\* target weights in hundredths of a percent: 100.01 is 10001
WEIGHT_SUM_MAX == 10001
MaxPositions == 2

\* position records with every required field, and the same lacking one
FullPositions ==
    [ticker : {"A", "B"}, asset_class : {"ACAO"}, quantity : {-1, 1},
     avg_price : {-1, 1}, target_weight_pct : {-1, 1, 5001, 10000, 10001}]
Without(pos, field) == [f \in DOMAIN pos \ {field} |-> pos[f]]
Positions == FullPositions \cup {Without(pos, "avg_price") : pos \in FullPositions}
PositionLists == UNION {[1..n -> Positions] : n \in 0..MaxPositions}

RECURSIVE SumTargetPct(_, _)
SumTargetPct(positions, i) ==
    IF i > Len(positions) THEN 0
    ELSE positions[i].target_weight_pct + SumTargetPct(positions, i + 1)

\* the loop of validate_portfolio, then the test of the sum
RECURSIVE ValidateLoop(_, _, _)
ValidateLoop(positions, i, tickers_seen) ==
    IF i > Len(positions)
    THEN IF SumTargetPct(positions, 1) > WEIGHT_SUM_MAX THEN "ValueError" ELSE "none"
    ELSE LET pos == positions[i]
         IN  IF REQUIRED_FIELDS \ DOMAIN pos # {} THEN "ValueError"
             ELSE IF pos.ticker \in tickers_seen THEN "ValueError"
             ELSE IF pos.quantity < 0 THEN "ValueError"
             ELSE IF pos.avg_price < 0 THEN "ValueError"
             ELSE IF ~(0 <= pos.target_weight_pct /\ pos.target_weight_pct <= 10000)
                  THEN "ValueError"
             ELSE ValidateLoop(positions, i + 1, tickers_seen \cup {pos.ticker})

\* what validate_portfolio raises
validate_portfolio(positions) ==
    IF positions = <<>> THEN "none" ELSE ValidateLoop(positions, 1, {})

CallValidatePortfolio ==
    /\ Idle
    /\ \E positions \in PositionLists :
         /\ call' = [fn |-> "validate_portfolio", positions |-> positions]
         /\ ret' = [raised |-> validate_portfolio(positions)]
    /\ UNCHANGED engine

\* the file written before the positions are validated
save_portfolio_WritesFirst(positions, file) ==
    [raised |-> validate_portfolio(positions), file |-> positions]

\* save_portfolio: the file after the call and what the call raised
save_portfolio(positions, file) ==
    IF validate_portfolio(positions) # "none"
    THEN [raised |-> validate_portfolio(positions), file |-> file]
    ELSE [raised |-> "none", file |-> positions]

\* the portfolio file before a save
OldFile == <<[ticker |-> "A", asset_class |-> "ACAO", quantity |-> 1,
              avg_price |-> 1, target_weight_pct |-> 10000]>>

CallSavePortfolio ==
    /\ Idle
    /\ \E positions \in PositionLists :
         /\ call' = [fn |-> "save_portfolio", positions |-> positions, file |-> OldFile]
         /\ ret' = save_portfolio(positions, OldFile)
    /\ UNCHANGED engine

\* a broker sheet: the required fields its columns resolve to, and its rows
CsvRows ==
    [ticker : {"a", "A", "B"}, asset_class : {"acao"}, quantity : {-1, 1},
     avg_price : {1}, target_weight_pct : {1, 10000}]
CsvColumns == {REQUIRED_FIELDS, REQUIRED_FIELDS \ {"quantity"}}
CsvFiles == [columns : CsvColumns,
             rows : UNION {[1..n -> CsvRows] : n \in 0..MaxPositions}]

\* str(...).strip().upper()
Upper(s) == CASE s = "a" -> "A"
              [] s = "acao" -> "ACAO"
              [] OTHER -> s

\* the records import_csv builds from the rows
CsvRecords(rows) ==
    [i \in 1..Len(rows) |->
        [ticker |-> Upper(rows[i].ticker), asset_class |-> Upper(rows[i].asset_class),
         quantity |-> rows[i].quantity, avg_price |-> rows[i].avg_price,
         target_weight_pct |-> rows[i].target_weight_pct]]

import_csv(file) ==
    IF file.columns # REQUIRED_FIELDS THEN [raised |-> "ValueError"]
    ELSE IF validate_portfolio(CsvRecords(file.rows)) # "none"
         THEN [raised |-> validate_portfolio(CsvRecords(file.rows))]
         ELSE [raised |-> "none", value |-> CsvRecords(file.rows)]

CallImportCsv ==
    /\ Idle
    /\ \E file \in CsvFiles :
         /\ call' = [fn |-> "import_csv", file |-> file]
         /\ ret' = import_csv(file)
    /\ UNCHANGED engine

LibNext ==
    \/ CallValidatePortfolio
    \/ CallSavePortfolio
    \/ CallImportCsv
    \/ CallComputeLogReturns
    \/ CallGenerateEfficientFrontier
    \/ CallComputeBand
    \/ CallClassifyZone
    \/ CallComputeWeights
    \/ CallComputeClassWeights
    \/ CallComputeGaps
    \/ CallClassifyAll
    \/ CallSuggestTargets

LibSpec == LibInit /\ [][LibNext]_vars

\* ------------------------------------------------------------------ claims
Returned == pc = "returned"

BuyIdx(os)  == {j \in 1..Len(os) : os[j].action = "BUY"}
SellIdx(os) == {j \in 1..Len(os) : os[j].action = "SELL"}
BuyTickers(os)  == {os[j].ticker : j \in BuyIdx(os)}
SellTickers(os) == {os[j].ticker : j \in SellIdx(os)}

RECURSIVE TotalOf(_, _, _)
TotalOf(os, action, i) ==
    IF i > Len(os) THEN 0
    ELSE (IF os[i].action = action THEN os[i].quantity * os[i].price ELSE 0)
         + TotalOf(os, action, i + 1)

BuyTotal(os)  == TotalOf(os, "BUY", 1)
SellTotal(os) == TotalOf(os, "SELL", 1)

AssetIdx(t) == CHOOSE i \in 1..Len(assets) : assets[i].ticker = t

\* an asset that is underweight against the projected value (spec 4.4, step 2)
Underweight(a) ==
    /\ a.current_price > 0
    /\ a.target_weight > 0
    /\ a.target_weight * v_projected > 100 * current_value(a)

\* C1: whenever compute_rebalancing has returned, the residual cash is >= 0.
C1_ResidualNonNegative == Returned => residual_cash >= 0

C1_Witness == Returned /\ BuyIdx(orders) # {} /\ SellIdx(orders) # {} /\ residual_cash > 0

\* C2: the number of distinct tickers with a BUY order in the returned list
\* is at most the caller's max_orders.
C2_BuyTickersWithinCap == Returned => Cardinality(BuyTickers(orders)) <= max_orders

\* C3: in the returned list no ticker has both a BUY and a SELL order.
C3_NoTickerBuyAndSell == Returned => BuyTickers(orders) \cap SellTickers(orders) = {}

\* C4: during and after the buy passes the BUY orders cost at most the
\* injected cash; once the first SELL order is in the list no BUY order
\* follows it; with no injection there is no BUY order.
C4_BuysFromInjectionOnly ==
    /\ BuyTotal(orders) <= cash_injection
    /\ \A j \in SellIdx(orders) : \A k \in BuyIdx(orders) : k < j
    /\ (Returned /\ cash_injection = 0) => BuyIdx(orders) = {}

C4_Witness ==
    /\ Returned /\ SellTotal(orders) > 0
    /\ BuyTotal(orders) = cash_injection /\ cash_injection > 1

\* C5: every order, in every phase, has a whole-number quantity >= 0,
\* the merged BUY orders of the spillover pass included.
C5_QuantitiesWhole == \A j \in 1..Len(orders) : orders[j].quantity \in Nat

\* a BUY order of pass 1 that the spillover pass has enlarged
C5_Witness ==
    /\ pc = "sells"
    /\ \E j \in 1..Len(orders) :
          LET p1 == Pass1(assets, SortDesc(class_cash), v_projected, zones, 1)
          IN  j <= Len(p1) /\ orders[j].quantity > p1[j].quantity

\* C6: with projected value > 0 the returned residual is
\* max(cash_injection - BUY total + SELL total, 0) over the final
\* quantities; with no injection and no SELL order nothing is returned.
C6_CashConserved ==
    (Returned /\ v_projected > 0) =>
        /\ residual_cash =
              (IF cash_injection - BuyTotal(orders) + SellTotal(orders) > 0
               THEN cash_injection - BuyTotal(orders) + SellTotal(orders) ELSE 0)
        /\ (cash_injection = 0 /\ SellIdx(orders) = {}) =>
              (orders = <<>> /\ residual_cash = 0)

C6_Witness ==
    /\ Returned /\ v_projected > 0
    /\ \E j \in BuyIdx(orders) : orders[j].quantity > 1
    /\ SellIdx(orders) # {}
    /\ residual_cash > cash_injection

\* floor((current_value - upper_bound / 100 * v_projected) / price)
ExpectedSellQty(a) ==
    LET ub == zones[a.ticker].band.upper_bound
    IN  (ub[2] * 100 * current_value(a) - ub[1] * v_projected)
            \div (ub[2] * 100 * a.current_price)

MustSell(a) ==
    /\ a.ticker \in DOMAIN zones
    /\ zones[a.ticker].status = "SELL"
    /\ a.current_price > 0
    /\ ExpectedSellQty(a) > 0

\* C7: the returned SELL orders are exactly one order, with the floor
\* quantity, per SELL-zone asset with price > 0 and floor quantity > 0.
C7_SellOrdersExact ==
    Returned =>
        /\ \A j \in SellIdx(orders) :
              /\ MustSell(assets[AssetIdx(orders[j].ticker)])
              /\ orders[j].quantity = ExpectedSellQty(assets[AssetIdx(orders[j].ticker)])
              /\ orders[j].price = assets[AssetIdx(orders[j].ticker)].current_price
              /\ \A k \in SellIdx(orders) : orders[k].ticker = orders[j].ticker => k = j
        /\ \A i \in 1..Len(assets) : MustSell(assets[i]) => assets[i].ticker \in SellTickers(orders)

\* a sell with no injection and no buy candidate
C7_Witness ==
    /\ Returned /\ cash_injection = 0
    /\ SellIdx(orders) # {}
    /\ \A i \in 1..Len(assets) : ~Underweight(assets[i])

\* C8: every returned BUY order is for an asset with price > 0,
\* target_weight > 0 and delta > 0 against the projected value.
C8_BuysOnlyUnderweight ==
    Returned => \A j \in BuyIdx(orders) : Underweight(assets[AssetIdx(orders[j].ticker)])

\* classes that hold an underweight buy candidate
CandidateClasses == {assets[i].asset_class : i \in {k \in 1..Len(assets) : Underweight(assets[k])}}

\* C9: when max_orders is smaller than the number of classes with buy
\* candidates, the tickers bought all belong to different classes.
C9_DiverseWhenSlotsShort ==
    (Returned /\ v_projected > 0 /\ max_orders < Cardinality(CandidateClasses)) =>
        \A j, k \in BuyIdx(orders) :
            assets[AssetIdx(orders[j].ticker)].asset_class
              = assets[AssetIdx(orders[k].ticker)].asset_class
            => orders[j].ticker = orders[k].ticker

\* C10: with projected value <= 0 the call returns no orders and the
\* cash_injection as residual, and no buy or sell phase is entered.
C10_DegenerateReturn ==
    /\ (Returned /\ v_projected <= 0) => (orders = <<>> /\ residual_cash = cash_injection)
    /\ pc \in {"pass1", "spillover", "sells"} => v_projected > 0

C10_Witness == Returned /\ v_projected <= 0 /\ Len(assets) > 0 /\ orders = <<>>
REq(a, b) == a[1] * b[2] = b[1] * a[2]

\* C11: for target, relative and absolute tolerance >= 0 the band has
\* 0 <= lower_bound <= target <= upper_bound, lower_bound =
\* max(target - target x relative - absolute, 0), upper_bound = target +
\* target x relative + absolute; target 0 gives [0, absolute].
C11_BandAroundTarget ==
    call.fn = "compute_band" =>
        LET t    == call.target_weight
            low  == 100 * t - t * call.relC - call.absC   \* in hundredths
            high == 100 * t + t * call.relC + call.absC
        IN  /\ RLe(RInt(0), ret.lower_bound)
            /\ RLe(ret.lower_bound, RInt(t))
            /\ RLe(RInt(t), ret.upper_bound)
            /\ REq(ret.lower_bound, <<IF low > 0 THEN low ELSE 0, 100>>)
            /\ REq(ret.upper_bound, <<high, 100>>)
            /\ t = 0 => (REq(ret.lower_bound, RInt(0))
                         /\ REq(ret.upper_bound, <<call.absC, 100>>))

\* a positive target whose tolerance reaches below zero
C11_Witness ==
    /\ call.fn = "compute_band" /\ call.target_weight > 0
    /\ 100 * call.target_weight - call.target_weight * call.relC - call.absC < 0
    /\ REq(ret.lower_bound, RInt(0))

\* C12: classify_zone gives BUY exactly below lower_bound, SELL exactly
\* above upper_bound and HOLD otherwise, the two ends being HOLD.
C12_ZoneByBand ==
    call.fn = "classify_zone" =>
        LET w == call.current_weight
            b == call.band
        IN  /\ ret = "BUY" <=> RLt(w, b.lower_bound)
            /\ ret = "SELL" <=> RGt(w, b.upper_bound)
            /\ ret = "HOLD" <=> (RGe(w, b.lower_bound) /\ RLe(w, b.upper_bound))
            /\ (REq(w, b.lower_bound) \/ REq(w, b.upper_bound)) => ret = "HOLD"
            /\ ret \in {"BUY", "HOLD", "SELL"}

\* a weight exactly on the positive lower end of a band
C12_Witness ==
    /\ call.fn = "classify_zone"
    /\ REq(call.current_weight, call.band.lower_bound)
    /\ RGt(call.band.lower_bound, RInt(0))
    /\ ret = "HOLD"
RAdd(a, b) == <<a[1] * b[2] + b[1] * a[2], a[2] * b[2]>>

RECURSIVE RSum(_, _)
RSum(ws, i) == IF i > Len(ws) THEN RInt(0) ELSE RAdd(ws[i], RSum(ws, i + 1))

\* C13: for a non-empty asset list of positive total value, compute_weights
\* returns for each asset current_value / total x 100, every weight lies in
\* 0..100, and the weights add up to 100.
C13_WeightsArePercentages ==
    (call.fn = "compute_weights" /\ Len(call.assets) > 0
        /\ compute_portfolio_value(call.assets) > 0)
    => /\ ret.raised = "none"
       /\ DOMAIN ret.value = 1..Len(call.assets)
       /\ \A i \in 1..Len(call.assets) :
            /\ REq(ret.value[i], <<100 * call.assets[i].quantity * call.assets[i].current_price,
                                   compute_portfolio_value(call.assets)>>)
            /\ RGe(ret.value[i], RInt(0)) /\ RLe(ret.value[i], RInt(100))
       /\ REq(RSum(ret.value, 1), RInt(100))

C13_Witness ==
    /\ call.fn = "compute_weights" /\ Len(call.assets) = 3
    /\ ret.raised = "none"
    /\ RGt(ret.value[1], RInt(0)) /\ REq(ret.value[2], ret.value[1])
    /\ RGt(ret.value[3], ret.value[1])

\* C14: when the total portfolio value is <= 0 (empty list, all quantities 0
\* or all prices 0), compute_weights returns weight 0 for every asset and
\* compute_class_weights returns the empty mapping; neither raises nor
\* divides by zero.
C14_ZeroTotalIsHandled ==
    /\ (call.fn = "compute_weights" /\ compute_portfolio_value(call.assets) <= 0)
       => /\ ret.raised = "none"
          /\ DOMAIN ret.value = 1..Len(call.assets)
          /\ \A i \in 1..Len(call.assets) : ret.value[i] = RInt(0)
    /\ (call.fn = "compute_class_weights" /\ compute_portfolio_value(call.assets) <= 0)
       => /\ ret.raised = "none"
          /\ DOMAIN ret.value = {}

C14_Witness ==
    /\ call.fn = "compute_class_weights" /\ Len(call.assets) = 2
    /\ call.assets[1].quantity > 0 /\ call.assets[1].current_price = 0
    /\ call.assets[2].quantity = 0 /\ call.assets[2].current_price > 0
    /\ ret.raised = "none" /\ DOMAIN ret.value = {}

\* C15: suggest_targets has one entry per ticker of either mapping (a ticker
\* absent from a mapping counts as 0 there); the entry is the current value
\* when blend_factor <= 0 and the optimal value when blend_factor >= 1, so a
\* factor outside [0, 1] acts as the nearest endpoint; in between it is
\* current x (1 - factor) + optimal x factor.
C15_BlendEndpoints ==
    call.fn = "suggest_targets"
    => /\ ret.raised = "none"
       /\ DOMAIN ret.value = DOMAIN call.current_weights \cup DOMAIN call.optimal_weights
       /\ \A t \in DOMAIN ret.value :
            LET curr == IF t \in DOMAIN call.current_weights
                        THEN call.current_weights[t] ELSE 0
                opt  == IF t \in DOMAIN call.optimal_weights
                        THEN call.optimal_weights[t] ELSE 0
                b    == call.blend_factor
            IN  /\ RLe(b, RInt(0)) => REq(ret.value[t], RInt(curr))
                /\ RGe(b, RInt(1)) => REq(ret.value[t], RInt(opt))
                /\ (RGt(b, RInt(0)) /\ RLt(b, RInt(1)))
                   => REq(ret.value[t], <<curr * (b[2] - b[1]) + opt * b[1], b[2]>>)

C15_Witness ==
    /\ call.fn = "suggest_targets"
    /\ RGt(call.blend_factor, RInt(1))
    /\ DOMAIN call.current_weights = {"A"} /\ DOMAIN call.optimal_weights = {"B"}
    /\ call.current_weights["A"] = 30 /\ call.optimal_weights["B"] = 70
    /\ REq(ret.value["A"], RInt(0)) /\ REq(ret.value["B"], RInt(70))

\* C17: when max(mu) - min(mu) < 1e-10 (all expected returns equal, or a
\* single asset), generate_efficient_frontier returns the empty sequence and
\* has handed no target to the variance solver.
C17_DegenerateFrontierEmpty ==
    (call.fn = "generate_efficient_frontier" /\ Len(call.mu) > 0
        /\ \A i, j \in 1..Len(call.mu) : call.mu[i] - call.mu[j] < FRONTIER_EPS)
    => /\ ret.raised = "none"
       /\ ret.value = <<>>
       /\ ret.solved = <<>>

C17_Witness ==
    /\ call.fn = "generate_efficient_frontier"
    /\ Len(call.mu) = 2 /\ call.mu[1] # call.mu[2]
    /\ call.n_points = MaxPoints
    /\ \A i \in 1..call.n_points : call.outcome[i] = "positive"
    /\ ret.raised = "none" /\ ret.value = <<>> /\ ret.solved = <<>>

\* the frame has at least one column and every cell is a positive number
PositivePrices(df) ==
    \A i \in 1..Len(df) :
        /\ DOMAIN df[i] # {}
        /\ \A k \in DOMAIN df[i] : df[i][k].kind = "num" /\ df[i][k].num > 0

GapFree(df) == \A i \in 1..Len(df) : \A k \in DOMAIN df[i] : df[i][k].kind = "num"

\* C18 as stated: compute_log_returns fails with InsufficientData when
\* given fewer than 2 price rows, and with n >= 2 gap-free rows it returns
\* n - 1 rows.
C18_RaisesInsufficientData ==
    call.fn = "compute_log_returns"
    => /\ Len(call.prices_df) < 2 => ret.raised = "InsufficientData"
       /\ (Len(call.prices_df) >= 2 /\ GapFree(call.prices_df))
          => (ret.raised = "none" /\ Len(ret.value) = Len(call.prices_df) - 1)

\* C18 amended: given fewer than 2 rows of at least one column,
\* compute_log_returns raises nothing and returns no rows; given n >= 2
\* rows of positive prices it returns n - 1 rows, row i holding the log of
\* price row i + 1 over price row i (the first, undefined row is dropped).
C18_ShortInputGivesNoRows ==
    call.fn = "compute_log_returns"
    => /\ ret.raised = "none"
       /\ (Len(call.prices_df) < 2
            /\ \A i \in 1..Len(call.prices_df) : DOMAIN call.prices_df[i] # {})
          => ret.value = <<>>
       /\ (Len(call.prices_df) >= 2 /\ PositivePrices(call.prices_df))
          => /\ Len(ret.value) = Len(call.prices_df) - 1
             /\ \A i \in 1..Len(ret.value) : \A k \in DOMAIN ret.value[i] :
                  /\ ret.value[i][k].kind = "log"
                  /\ ret.value[i][k].num = call.prices_df[i + 1][k].num
                  /\ ret.value[i][k].den = call.prices_df[i][k].num

C18_Witness ==
    /\ call.fn = "compute_log_returns"
    /\ Len(call.prices_df) = 1 /\ PositivePrices(call.prices_df)
    /\ ret.raised = "none" /\ ret.value = <<>>

\* a position list ingestion must reject: a record lacks a required field, a
\* ticker occurs twice, a quantity or average price is negative, a target
\* weight is outside 0..100, or the target weights add up to more than 100.01
LacksField(pos) == ~(REQUIRED_FIELDS \subseteq DOMAIN pos)

RECURSIVE TargetPctTotal(_, _)
TargetPctTotal(ps, i) ==
    IF i > Len(ps) THEN 0
    ELSE (IF "target_weight_pct" \in DOMAIN ps[i] THEN ps[i].target_weight_pct ELSE 0)
         + TargetPctTotal(ps, i + 1)

Invalid(ps) ==
    \/ \E i \in 1..Len(ps) : LacksField(ps[i])
    \/ \E i, j \in 1..Len(ps) :
          /\ i # j /\ "ticker" \in DOMAIN ps[i] /\ "ticker" \in DOMAIN ps[j]
          /\ ps[i].ticker = ps[j].ticker
    \/ \E i \in 1..Len(ps) : "quantity" \in DOMAIN ps[i] /\ ps[i].quantity < 0
    \/ \E i \in 1..Len(ps) : "avg_price" \in DOMAIN ps[i] /\ ps[i].avg_price < 0
    \/ \E i \in 1..Len(ps) :
          /\ "target_weight_pct" \in DOMAIN ps[i]
          /\ (ps[i].target_weight_pct < 0 \/ ps[i].target_weight_pct > 10000)
    \/ TargetPctTotal(ps, 1) > 10001

\* C19: validate_portfolio raises ValueError for every invalid position
\* list and accepts the empty list; save_portfolio raises the same and
\* leaves the file as it was, writing the positions only when they are
\* valid; import_csv raises the same and returns no records when the records
\* built from the sheet are invalid.
C19_InvalidListsRejected ==
    /\ call.fn = "validate_portfolio"
       => /\ Invalid(call.positions) => ret.raised = "ValueError"
          /\ call.positions = <<>> => ret.raised = "none"
    /\ call.fn = "save_portfolio"
       => /\ Invalid(call.positions) => (ret.raised = "ValueError" /\ ret.file = call.file)
          /\ ret.file # call.file => (ret.file = call.positions /\ ~Invalid(call.positions))
          /\ call.positions = <<>> => ret.raised = "none"
    /\ call.fn = "import_csv"
       => /\ Invalid(CsvRecords(call.file.rows))
             => (ret.raised = "ValueError" /\ "value" \notin DOMAIN ret)
          /\ "value" \in DOMAIN ret
             => (ret.value = CsvRecords(call.file.rows) /\ ~Invalid(ret.value))

C19_Witness ==
    /\ call.fn = "save_portfolio"
    /\ Len(call.positions) = 2
    /\ \A i \in 1..2 : ~LacksField(call.positions[i])
                          /\ call.positions[i].quantity >= 0
                          /\ call.positions[i].avg_price >= 0
                          /\ call.positions[i].target_weight_pct = 5001
    /\ call.positions[1].ticker # call.positions[2].ticker
    /\ ret.raised = "ValueError" /\ ret.file = call.file

\* every field of every asset but current_weight is the same in s and t
SameButCurrentWeight(s, t) ==
    /\ Len(s) = Len(t)
    /\ \A i \in 1..Len(s) :
         /\ t[i].ticker = s[i].ticker /\ t[i].asset_class = s[i].asset_class
         /\ t[i].quantity = s[i].quantity /\ t[i].current_price = s[i].current_price
         /\ t[i].target_weight = s[i].target_weight

\* C20: enrich_weights changes only current_weight; classify_all leaves the
\* assets as they are; every step of compute_rebalancing leaves the assets,
\* every field and their order, and the zones mapping as they are.
C20_InputsUnmodified ==
    [][ /\ pc = "built" => (SameButCurrentWeight(assets, assets') /\ zones' = zones)
        /\ pc = "enriched" => assets' = assets
        /\ pc \in {"classified", "pass1", "spillover", "sells"}
           => (assets' = assets /\ zones' = zones) ]_vars

C20_Witness ==
    /\ Returned /\ Len(assets) = 3
    /\ BuyIdx(orders) # {} /\ SellIdx(orders) # {}
    /\ \E i \in 1..Len(assets) : RGt(assets[i].current_weight, RInt(0))
    /\ \E i \in 1..(Len(assets) - 1) : assets[i].target_weight < assets[i + 1].target_weight

\* the asset an order is for
AssetOf(o) == assets[AssetIdx(o.ticker)]

\* relativeGap = delta / (target_weight / 100 x projectedValue), and
\* priority = relativeGap x (2 if the zone is BUY, else 1) (spec 4.4)
RelativePriority(a) ==
    <<(IF ZoneGet(zones, a.ticker).status = "BUY" THEN 2 ELSE 1)
        * (a.target_weight * v_projected - 100 * current_value(a)),
      a.target_weight * v_projected>>

\* C21: the buy orders of one class, as pass 1 leaves them, are in
\* descending order of priority = relativeGap x (2 if BUY else 1): of two
\* candidates served from the same class budget the one with the higher
\* priority is allocated first.
C21_RankedByRelativeGap ==
    pc = "spillover"
    => \A j, k \in 1..Len(orders) :
         (j < k /\ AssetOf(orders[j]).asset_class = AssetOf(orders[k]).asset_class)
         => RGe(RelativePriority(AssetOf(orders[j])), RelativePriority(AssetOf(orders[k])))

\* C22: when the buy passes are over and no sell proceeds are added yet, the
\* remaining cash is below the unit price of every underweight asset that was
\* given a BUY order (no further whole unit of it is affordable), and every
\* ticker has at most one BUY order, the units of the sweep being merged into it.
C22_LeftoverCashSwept ==
    pc = "sells"
    => /\ \A j \in BuyIdx(orders) :
            Underweight(AssetOf(orders[j])) => remaining_cash < orders[j].price
       /\ \A j, k \in BuyIdx(orders) : orders[j].ticker = orders[k].ticker => j = k

\* the classes of the assets, and per class: target weight, gap = target -
\* current class weight (as ClassGapNum / ClassGapDen), budget and pass-1 spend
Classes == {assets[i].asset_class : i \in 1..Len(assets)}
ClassTarget(c) == compute_class_targets(assets, c, 1)
ClassGapDen == IF compute_portfolio_value(assets) > 0 THEN compute_portfolio_value(assets) ELSE 1
ClassGapNum(c) ==
    IF compute_portfolio_value(assets) > 0
    THEN ClassTarget(c) * compute_portfolio_value(assets) - 100 * ClassValue(assets, c, 1)
    ELSE ClassTarget(c)

RECURSIVE PositiveGaps(_)
PositiveGaps(cs) ==
    IF cs = {} THEN 0
    ELSE LET c == CHOOSE x \in cs : TRUE
         IN  (IF ClassGapNum(c) > 0 THEN ClassGapNum(c) ELSE 0) + PositiveGaps(cs \ {c})

HasBudget(c) == \E j \in 1..Len(class_cash) : class_cash[j].cls = c
BudgetOf(c) ==
    IF HasBudget(c)
    THEN class_cash[CHOOSE j \in 1..Len(class_cash) : class_cash[j].cls = c].key
    ELSE RInt(0)
BudgetTotal == RSum([j \in 1..Len(class_cash) |-> class_cash[j].key], 1)

RECURSIVE SpentOn(_, _)
SpentOn(c, i) ==
    IF i > Len(orders) THEN 0
    ELSE (IF AssetOf(orders[i]).asset_class = c THEN orders[i].quantity * orders[i].price ELSE 0)
         + SpentOn(c, i + 1)

\* the budgets when the positive gaps exceed 1 point: by gap, none for a
\* class at or above its target
BudgetsByGap ==
    \A c \in Classes :
        IF ClassGapNum(c) > 0
        THEN HasBudget(c)
             /\ REq(BudgetOf(c), <<cash_injection * ClassGapNum(c), PositiveGaps(Classes)>>)
        ELSE ~HasBudget(c)

\* the budgets otherwise: budget x total target = cash_injection x class target
BudgetsByTarget ==
    \A c \in Classes :
        /\ HasBudget(c)
        /\ RNum(BudgetOf(c)) * SumTargets(assets, 1)
             = cash_injection * ClassTarget(c) * RDen(BudgetOf(c))

WithinBudgets == pc = "spillover" => \A c \in Classes : RLe(RInt(SpentOn(c, 1)), BudgetOf(c))

\* C23 as stated: by gap when the positive class gaps exceed 1 point, by
\* target otherwise; in both cases the budgets add up to cash_injection and
\* no class spends more than its budget in pass 1.
C23_ClassBudgets ==
    pc \in {"pass1", "spillover"}
    => /\ IF PositiveGaps(Classes) > ClassGapDen THEN BudgetsByGap ELSE BudgetsByTarget
       /\ Classes # {} => REq(BudgetTotal, RInt(cash_injection))
       /\ WithinBudgets

\* C23 amended: as stated when the positive class gaps exceed 1 point or the
\* total target weight is > 0; when neither holds (no assets, or every
\* target 0) no class gets a budget and pass 1 buys nothing.
C23_ClassBudgetsWhenTargeted ==
    pc \in {"pass1", "spillover"}
    => /\ IF PositiveGaps(Classes) > ClassGapDen THEN BudgetsByGap
          ELSE IF SumTargets(assets, 1) > 0 THEN BudgetsByTarget
          ELSE class_cash = <<>> /\ (pc = "spillover" => orders = <<>>)
       /\ (PositiveGaps(Classes) > ClassGapDen \/ SumTargets(assets, 1) > 0)
          => REq(BudgetTotal, RInt(cash_injection))
       /\ WithinBudgets

C23_Witness ==
    /\ pc = "spillover"
    /\ Cardinality(Classes) = 2
    /\ PositiveGaps(Classes) > ClassGapDen
    /\ \E c \in Classes : ClassGapNum(c) <= 0 /\ ClassTarget(c) > 0 /\ ~HasBudget(c)
    /\ \E c \in Classes : HasBudget(c) /\ SpentOn(c, 1) > 0
                              /\ RLt(RInt(SpentOn(c, 1)), BudgetOf(c))

OrderAmount(o) == o.quantity * o.price

\* C24: of two BUY orders for underweight assets of the same class in one
\* returned list, the earlier one has an amount (quantity x price) >= that
\* of the later one.
C24_EarlierBuyIsLarger ==
    Returned
    => \A j, k \in BuyIdx(orders) :
         (j < k /\ AssetOf(orders[j]).asset_class = AssetOf(orders[k]).asset_class
          /\ Underweight(AssetOf(orders[j])) /\ Underweight(AssetOf(orders[k])))
         => OrderAmount(orders[j]) >= OrderAmount(orders[k])

\* the factor and the priority _compute_class_buys sorts by
ZoneFactor(a) == IF ZoneGet(zones, a.ticker).status = "BUY" THEN 2 ELSE 1
GapPriority(a) ==
    <<ZoneFactor(a) * (a.target_weight * v_projected - 100 * current_value(a)), 100>>

\* C24 amended: of two BUY orders for assets of the same class as pass 1
\* leaves them, the earlier one is for the asset whose priority delta x
\* (2 if BUY else 1) is higher or equal; when the two assets have the same
\* unit price and the same zone factor, the earlier amount is >= the later.
C24_EarlierBuyHasPriority ==
    pc = "spillover"
    => \A j, k \in BuyIdx(orders) :
         (j < k /\ AssetOf(orders[j]).asset_class = AssetOf(orders[k]).asset_class)
         => /\ RGe(GapPriority(AssetOf(orders[j])), GapPriority(AssetOf(orders[k])))
            /\ (orders[j].price = orders[k].price
                 /\ ZoneFactor(AssetOf(orders[j])) = ZoneFactor(AssetOf(orders[k])))
               => OrderAmount(orders[j]) >= OrderAmount(orders[k])

C24_Witness ==
    /\ pc = "spillover"
    /\ \E j, k \in BuyIdx(orders) :
         /\ j < k /\ AssetOf(orders[j]).asset_class = AssetOf(orders[k]).asset_class
         /\ orders[j].price = orders[k].price
         /\ ZoneFactor(AssetOf(orders[j])) = ZoneFactor(AssetOf(orders[k]))
         /\ OrderAmount(orders[j]) > OrderAmount(orders[k])

\* the call is a frontier call on a non-empty mu whose spread reaches 1e-10
NonDegenerateCall ==
    /\ call.fn = "generate_efficient_frontier" /\ Len(call.mu) > 0
    /\ \E i, j \in 1..Len(call.mu) : call.mu[i] - call.mu[j] >= FRONTIER_EPS

MuLow  == CHOOSE x \in {call.mu[i] : i \in 1..Len(call.mu)} :
            \A j \in 1..Len(call.mu) : x <= call.mu[j]
MuHigh == CHOOSE x \in {call.mu[i] : i \in 1..Len(call.mu)} :
            \A j \in 1..Len(call.mu) : x >= call.mu[j]

\* the i-th of n evenly spaced targets from MuLow to MuHigh
EvenTarget(i, n) ==
    IF n = 1 THEN RInt(MuLow) ELSE <<MuLow * (n - 1) + (i - 1) * (MuHigh - MuLow), n - 1>>

\* the targets whose solve gave a volatility > 0, and the j-th of them
PositiveTargets == {i \in 1..call.n_points : call.outcome[i] = "positive"}
NthPositive(j) ==
    CHOOSE i \in PositiveTargets : Cardinality({m \in PositiveTargets : m < i}) = j - 1

\* C25: in the non-degenerate case every one of the n_points evenly spaced
\* targets from min(mu) to max(mu) is handed to the solver, in ascending
\* order; the result holds exactly the targets whose solve gave a
\* volatility > 0, in that order, whatever the solves of the other targets
\* did (raise, volatility 0 or not a number); so it has at most n_points
\* points, each of volatility > 0, in ascending order of return.
C25_FrontierKeepsGoodPoints ==
    NonDegenerateCall
    => /\ ret.raised = "none"
       /\ Len(ret.solved) = call.n_points
       /\ \A i \in 1..call.n_points : REq(ret.solved[i], EvenTarget(i, call.n_points))
       /\ \A i \in 1..(call.n_points - 1) : RLt(ret.solved[i], ret.solved[i + 1])
       /\ Len(ret.value) = Cardinality(PositiveTargets)
       /\ Len(ret.value) <= call.n_points
       /\ \A j \in 1..Len(ret.value) :
            /\ ret.value[j].volatility = "positive"
            /\ REq(ret.value[j].return, EvenTarget(NthPositive(j), call.n_points))
       /\ \A j \in 1..(Len(ret.value) - 1) :
            RLt(ret.value[j].return, ret.value[j + 1].return)

C25_Witness ==
    /\ NonDegenerateCall
    /\ call.n_points = MaxPoints
    /\ call.outcome[1] = "raises" /\ call.outcome[2] = "zero"
    /\ call.outcome[call.n_points] = "positive"
    /\ Len(ret.value) >= 1
    /\ REq(ret.value[Len(ret.value)].return, RInt(MuHigh))

\* ------------------------------------------------------------------ main.py
\* the main flow from the asset build to the rebalancing statement; after
\* the retargeting the target weights are fractions, kept in lowest terms
RECURSIVE GCD(_, _)
GCD(a, b) == IF b = 0 THEN a ELSE GCD(b, a % b)
RNorm(r) == LET g == GCD(IF r[1] < 0 THEN -r[1] ELSE r[1], r[2])
            IN  <<r[1] \div g, r[2] \div g>>
RPlus(a, b) == RNorm(<<a[1] * b[2] + b[1] * a[2], a[2] * b[2]>>)
RTimes(a, b) == RNorm(<<a[1] * b[1], a[2] * b[2]>>)

\* Band.__post_init__ for a target weight that is a fraction
compute_bandQ(target_weight, relC, absC) ==
    LET n == target_weight[1]
        d == target_weight[2]
    IN  [target_weight |-> target_weight,
         lower_bound |-> RMax(<<100 * n - n * relC - absC * d, 100 * d>>, RInt(0)),
         upper_bound |-> <<100 * n + n * relC + absC * d, 100 * d>>]

classify_allQ(s, relC, absC) ==
    [t \in {s[i].ticker : i \in 1..Len(s)} |->
        LET a == s[CHOOSE i \in 1..Len(s) : s[i].ticker = t
                                /\ \A j \in (i + 1)..Len(s) : s[j].ticker # t]
            band == compute_bandQ(a.target_weight, relC, absC)
        IN  [status |-> classify_zone(a.current_weight, band), band |-> band]]

\* suggest_targets on mappings of fractions
suggest_targetsQ(current_weights, optimal_weights, blend_factor) ==
    LET b == RMax(RInt(0), RMin(RInt(1), blend_factor))
        get(m, t) == IF t \in DOMAIN m THEN m[t] ELSE RInt(0)
    IN  [t \in DOMAIN current_weights \cup DOMAIN optimal_weights |->
            RPlus(RTimes(get(current_weights, t), <<RDen(b) - RNum(b), RDen(b)>>),
                  RTimes(get(optimal_weights, t), b))]

\* where a position's price comes from: the quote, else the stored
\* current_price, else avg_price
MainPriceSources == {[quote |-> 1, current_price |-> 0],
                     [quote |-> 0, current_price |-> 2],
                     [quote |-> 0, current_price |-> 0]}
MainFields(n) == [1..n -> [quantity : {0, 1}, source : MainPriceSources,
                           target_weight_pct : TargetWeights]]
MainBlends == {<<1, 2>>, <<1, 1>>}
\* the sidebar's default relative band (20%) and absolute band (1.5 points)
MainTolerance == <<20, 150>>

MainPosition(i, f) ==
    [ticker |-> TickerSeq[i], asset_class |-> ClassOf[TickerSeq[i]],
     quantity |-> f.quantity, avg_price |-> 1, current_price |-> f.source.current_price,
     target_weight_pct |-> f.target_weight_pct]

\* the quotes fetched: only tickers with a quote are in the mapping
MainQuotes(n, f) ==
    [t \in {TickerSeq[i] : i \in {k \in 1..n : f[k].source.quote > 0}} |->
        f[CHOOSE i \in 1..n : TickerSeq[i] = t].source.quote]

MainInit ==
    /\ \E n \in 1..Len(TickerSeq) : \E f \in MainFields(n) :
         \E tol \in {MainTolerance}, b \in MainBlends :
            /\ call = [fn |-> "main",
                       positions |-> [i \in 1..n |-> MainPosition(i, f[i])],
                       quotes |-> MainQuotes(n, f),
                       relative_band |-> tol[1], absolute_band |-> tol[2],
                       blend_factor |-> b]
            /\ validate_portfolio(call.positions) = "none"
    /\ ret = [raised |-> "none", log |-> <<>>]
    /\ assets = <<>>
    /\ zones = <<>>
    /\ pc = "main_start"
    /\ cash_injection = 0
    /\ max_orders = DEFAULT_MAX_ORDERS
    /\ v_projected = 0
    /\ class_cash = <<>>
    /\ orders = <<>>
    /\ remaining_cash = 0
    /\ residual_cash = 0

rest == <<cash_injection, max_orders, v_projected, class_cash, orders,
          remaining_cash, residual_cash, call>>

Logged(step) == [ret EXCEPT !.log = Append(@, step)]

\* lines 114-132: one Asset per position
BuildAsset(p, quotes) ==
    LET quote == IF p.ticker \in DOMAIN quotes THEN quotes[p.ticker] ELSE 0
        price == IF quote > 0 THEN quote
                 ELSE IF p.current_price > 0 THEN p.current_price
                 ELSE p.avg_price
    IN  [ticker |-> p.ticker, asset_class |-> p.asset_class, quantity |-> p.quantity,
         current_price |-> price, target_weight |-> RInt(p.target_weight_pct),
         current_weight |-> RInt(0)]

MainBuildAssets ==
    /\ pc = "main_start"
    /\ assets' = [i \in 1..Len(call.positions) |-> BuildAsset(call.positions[i], call.quotes)]
    /\ pc' = "main_built"
    /\ ret' = Logged("build")
    /\ UNCHANGED <<zones, rest>>

\* line 134
MainEnrichWeights ==
    /\ pc = "main_built"
    /\ assets' = [i \in 1..Len(assets) |->
                    [assets[i] EXCEPT !.current_weight = compute_weights(assets)[i]]]
    /\ pc' = "main_enriched"
    /\ ret' = Logged("enrich_weights")
    /\ UNCHANGED <<zones, rest>>

\* line 135
MainClassifyAll ==
    /\ pc = "main_enriched"
    /\ zones' = classify_allQ(assets, call.relative_band, call.absolute_band)
    /\ pc' = "main_classified"
    /\ ret' = Logged("classify_all")
    /\ UNCHANGED <<assets, rest>>

\* lines 152-154, 168: no price history, or too little of it
MainSkipMarkowitz ==
    /\ pc = "main_classified"
    /\ pc' = "main_targets"
    /\ UNCHANGED <<assets, zones, ret, rest>>

RECURSIVE SumShare(_, _)
SumShare(cur_w, ts) ==
    IF ts = {} THEN RInt(0)
    ELSE LET x == CHOOSE y \in ts : TRUE
         IN  RPlus(IF x \in DOMAIN cur_w THEN cur_w[x] ELSE RInt(0), SumShare(cur_w, ts \ {x}))

\* lines 169-173: the suggested targets for the price columns cols and the
\* optimizer's weights w
Suggested(s, cols, w, blend_factor) ==
    LET cur_w == [x \in {s[i].ticker : i \in 1..Len(s)} |->
                    compute_weights(s)[CHOOSE i \in 1..Len(s) : s[i].ticker = x]]
        subset_share == SumShare(cur_w, cols)
        scale == IF RGt(subset_share, RInt(0)) THEN RTimes(subset_share, <<1, 100>>)
                 ELSE RInt(1)
        opt_w == [x \in cols |-> RTimes(RInt(w[x] * 100), scale)]
    IN  suggest_targetsQ(cur_w, opt_w, blend_factor)

Retargeted(s, suggested) ==
    [i \in 1..Len(s) |->
        IF s[i].ticker \in DOMAIN suggested
        THEN [s[i] EXCEPT !.target_weight = suggested[s[i].ticker]]
        ELSE s[i]]

\* the targets replaced and the zones left as they were
MainRetarget_NoReclassify ==
    /\ pc = "main_classified"
    /\ \E cols \in SUBSET {assets[i].ticker : i \in 1..Len(assets)} :
         /\ Cardinality(cols) >= 2
         /\ \E w \in [cols -> {0, 1}] :
              assets' = Retargeted(assets, Suggested(assets, cols, w, call.blend_factor))
    /\ pc' = "main_targets"
    /\ ret' = Logged("retarget")
    /\ UNCHANGED <<zones, rest>>

\* lines 152-177: the optimizer ran on at least two price columns
MainRetarget ==
    /\ pc = "main_classified"
    /\ \E cols \in SUBSET {assets[i].ticker : i \in 1..Len(assets)} :
         /\ Cardinality(cols) >= 2
         /\ \E w \in [cols -> {0, 1}] :
              assets' = Retargeted(assets, Suggested(assets, cols, w, call.blend_factor))
    /\ zones' = classify_allQ(assets', call.relative_band, call.absolute_band)
    /\ pc' = "main_targets"
    /\ ret' = [ret EXCEPT !.log = Append(Append(@, "retarget"), "classify_all")]
    /\ UNCHANGED rest

\* line 181: the arguments assets, to_invest and zones are evaluated, then
\* params["max_orders"] raises KeyError (the sidebar returns no such key)
MainRebalance ==
    /\ pc = "main_targets"
    /\ pc' = "main_rebalance"
    /\ ret' = [raised |-> "KeyError", log |-> Append(ret.log, "compute_rebalancing"),
               assets |-> assets, zones |-> zones]
    /\ UNCHANGED <<assets, zones, rest>>

MainNext ==
    \/ MainBuildAssets
    \/ MainEnrichWeights
    \/ MainClassifyAll
    \/ MainSkipMarkowitz
    \/ MainRetarget
    \/ MainRebalance

MainSpec == MainInit /\ [][MainNext]_vars

\* the steps of the main flow so far, in order
MainLog == ret.log
Before(a, k) == \E j \in 1..(k - 1) : MainLog[j] = a

\* C26: in the main flow enrich_weights runs after the asset build (where
\* the assets get their prices) and before the first classify_all; after a
\* retargeting classify_all runs again before the rebalancing statement; so
\* the zones passed at that statement are classify_all of the assets as they
\* are then, with their final target weights and the current weights that
\* enrich_weights computed from the built prices.
C26_ZonesMatchFinalTargets ==
    call.fn = "main"
    => /\ \A k \in 1..Len(MainLog) :
            /\ MainLog[k] = "enrich_weights" => Before("build", k)
            /\ MainLog[k] = "classify_all" => Before("enrich_weights", k)
            /\ MainLog[k] = "compute_rebalancing"
               => /\ Before("classify_all", k)
                  /\ \A j \in 1..(k - 1) :
                       MainLog[j] = "retarget"
                       => \E i \in (j + 1)..(k - 1) : MainLog[i] = "classify_all"
       /\ pc = "main_rebalance"
          => /\ ret.assets = assets /\ ret.zones = zones
             /\ DOMAIN ret.zones = {ret.assets[i].ticker : i \in 1..Len(ret.assets)}
             /\ \A i \in 1..Len(ret.assets) :
                  LET a == ret.assets[i]
                      z == ret.zones[a.ticker]
                      total == compute_portfolio_value(ret.assets)
                      tol == <<call.relative_band, 100>>
                      shift == RPlus(RTimes(a.target_weight, tol), <<call.absolute_band, 100>>)
                      low == RPlus(a.target_weight, <<-shift[1], shift[2]>>)
                      high == RPlus(a.target_weight, shift)
                  IN  /\ a.current_price = BuildAsset(call.positions[i], call.quotes).current_price
                      /\ REq(a.current_weight,
                             IF total > 0 THEN <<100 * a.quantity * a.current_price, total>>
                             ELSE RInt(0))
                      /\ REq(z.band.target_weight, a.target_weight)
                      /\ REq(z.band.lower_bound, RMax(low, RInt(0)))
                      /\ REq(z.band.upper_bound, high)
                      /\ z.status = "BUY" <=> RLt(a.current_weight, RMax(low, RInt(0)))
                      /\ z.status = "SELL" <=> RGt(a.current_weight, high)

\* a run whose retargeting moved an asset to another zone
C26_Witness ==
    /\ pc = "main_rebalance"
    /\ \E j \in 1..Len(MainLog) : MainLog[j] = "retarget"
    /\ \E i \in 1..Len(ret.assets) :
         LET a == ret.assets[i]
             before == compute_bandQ(RInt(call.positions[i].target_weight_pct),
                                     call.relative_band, call.absolute_band)
         IN  /\ ~REq(a.target_weight, RInt(call.positions[i].target_weight_pct))
             /\ classify_zone(a.current_weight, before) # ret.zones[a.ticker].status


\* C27: a SELL order never sells more than is held, and its amount is at most
\* current_value - upper_bound / 100 * v_projected, so the value left after the
\* sale is still at or above the upper-band share of the projected value.
C27_SellWithinExcess ==
    Returned =>
        \A j \in SellIdx(orders) :
            LET a  == AssetOf(orders[j])
                ub == zones[a.ticker].band.upper_bound
            IN  /\ orders[j].quantity <= a.quantity
                /\ 100 * RDen(ub) * amount(orders[j])
                       <= 100 * RDen(ub) * current_value(a) - RNum(ub) * v_projected
                /\ 100 * RDen(ub) * (current_value(a) - amount(orders[j]))
                       >= RNum(ub) * v_projected

\* a partial sale whose amount is strictly below the excess
C27_Witness ==
    /\ Returned
    /\ \E j \in SellIdx(orders) :
          LET a  == AssetOf(orders[j])
              ub == zones[a.ticker].band.upper_bound
          IN  /\ orders[j].quantity < a.quantity
              /\ 100 * RDen(ub) * amount(orders[j])
                     < 100 * RDen(ub) * current_value(a) - RNum(ub) * v_projected


\* C28: no order, BUY or SELL, is ever produced for an asset whose price is
\* not positive; every order produced in any phase carries the asset's current
\* price, which is > 0, and has quantity >= 1.
C28_OrdersArePriced ==
    pc \in {"spillover", "sells", "returned"} =>
        \A j \in 1..Len(orders) :
            /\ AssetOf(orders[j]).current_price > 0
            /\ orders[j].price = AssetOf(orders[j]).current_price
            /\ orders[j].quantity >= 1

\* BUY and SELL orders are returned while an unpriced asset with a positive
\* target, classified BUY, gets none
C28_Witness ==
    /\ Returned
    /\ BuyIdx(orders) # {} /\ SellIdx(orders) # {}
    /\ \E i \in 1..Len(assets) :
          /\ assets[i].current_price = 0
          /\ assets[i].target_weight > 0
          /\ zones[assets[i].ticker].status = "BUY"
          /\ \A j \in 1..Len(orders) : orders[j].ticker # assets[i].ticker


\* C29: zone status and gap sign agree: with current_weight written by
\* enrich_weights and tolerances >= 0, an asset classified BUY has a compute_gaps
\* value > 0, one classified SELL has a value < 0, and an asset whose current
\* weight equals its target is HOLD.
C29_ZoneAgreesWithGap ==
    call.fn = "classify_all" =>
        LET s    == call.assets
            gaps == compute_gaps(s)
        IN  \A i \in 1..Len(s) :
              LET status == ret.value[s[i].ticker].status
              IN  /\ status = "BUY" => RGt(gaps[i], RInt(0))
                  /\ status = "SELL" => RLt(gaps[i], RInt(0))
                  /\ (s[i].current_weight[1] = s[i].target_weight * s[i].current_weight[2])
                        => status = "HOLD"

\* zero tolerances: one asset exactly on its positive target, one BUY, one SELL
C29_Witness ==
    /\ call.fn = "classify_all" /\ call.relC = 0 /\ call.absC = 0
    /\ \E i, j, k \in 1..Len(call.assets) :
          /\ call.assets[i].target_weight > 0
          /\ call.assets[i].current_weight[1]
                = call.assets[i].target_weight * call.assets[i].current_weight[2]
          /\ ret.value[call.assets[i].ticker].status = "HOLD"
          /\ ret.value[call.assets[j].ticker].status = "BUY"
          /\ ret.value[call.assets[k].ticker].status = "SELL"


\* the sum of a mapping of whole percentages, and of a mapping of fractions
RECURSIVE SumOver(_, _)
SumOver(m, S) ==
    IF S = {} THEN 0
    ELSE LET t == CHOOSE x \in S : TRUE IN m[t] + SumOver(m, S \ {t})

RECURSIVE RSumOver(_, _)
RSumOver(m, S) ==
    IF S = {} THEN RInt(0)
    ELSE LET t == CHOOSE x \in S : TRUE IN RAdd(m[t], RSumOver(m, S \ {t}))

\* the blend factor brought into [0, 1]
Clamped(b) == IF RLt(b, RInt(0)) THEN RInt(0) ELSE IF RGt(b, RInt(1)) THEN RInt(1) ELSE b

\* C30: suggest_targets is a convex combination: for every blend factor and
\* every ticker of the union the result lies between the current and the
\* optimal value (inclusive), the results add up to (1 - b) x sum(current) +
\* b x sum(optimal) for the clamped factor b, and when both inputs add up to
\* at most 100 so do the suggested targets.
C30_ConvexCombination ==
    call.fn = "suggest_targets" =>
        LET c  == call.current_weights
            o  == call.optimal_weights
            b  == Clamped(call.blend_factor)
            sc == SumOver(c, DOMAIN c)
            so == SumOver(o, DOMAIN o)
            sr == RSumOver(ret.value, DOMAIN ret.value)
        IN  /\ \A t \in DOMAIN c \cup DOMAIN o :
                 LET curr == WeightGet(c, t)
                     opt  == WeightGet(o, t)
                 IN  /\ RLe(RInt(IF curr < opt THEN curr ELSE opt), ret.value[t])
                     /\ RLe(ret.value[t], RInt(IF curr < opt THEN opt ELSE curr))
            /\ REq(sr, <<(b[2] - b[1]) * sc + b[1] * so, b[2]>>)
            /\ (sc <= 100 /\ so <= 100) => RLe(sr, RInt(100))

\* a factor strictly inside (0, 1), mappings over different tickers, both
\* adding up to at most 100, one of them to exactly 100, and a ticker whose
\* suggestion lies strictly between its two values
C30_Witness ==
    /\ call.fn = "suggest_targets"
    /\ RGt(call.blend_factor, RInt(0)) /\ RLt(call.blend_factor, RInt(1))
    /\ DOMAIN call.current_weights # DOMAIN call.optimal_weights
    /\ SumOver(call.current_weights, DOMAIN call.current_weights) <= 100
    /\ SumOver(call.optimal_weights, DOMAIN call.optimal_weights) = 100
    /\ \E t \in DOMAIN call.current_weights \cap DOMAIN call.optimal_weights :
          /\ RLt(RInt(call.optimal_weights[t]), ret.value[t])
          /\ RLt(ret.value[t], RInt(call.current_weights[t]))

====
